---- MODULE Spec2Model ----
(***************************************************************************)
(* A model of log2src's mapping engine (src/src/lib.rs): the LogMatcher    *)
(* with its roots and per-root index of StatementsInFile, the extraction   *)
(* of log statements from scan events, the matching of a log line and the  *)
(* extraction of its variables.                                            *)
(*                                                                         *)
(* Text is a sequence of one-character strings.  An Option is a sequence   *)
(* of length 0 (None) or 1 (Some).  Rust's 0-based indices are kept in     *)
(* the data (Positional(pos), the enumerate index) and shifted by one      *)
(* where a TLA+ sequence is indexed.                                       *)
(***************************************************************************)
EXTENDS Integers, Sequences, FiniteSets, TLC

\* ------------------------------------------------------------------ bounds

\* Longest log line / body explored by the variable-extraction runs.
MaxBody == 3
\* Longest ordered sequence of query matches of one source file.
MaxResults == 3
\* Filesystem edits (writes and removals) explored by the matcher runs.
MaxEdits == 3

\* ------------------------------------------------------------------ text

None == <<>>
Some(x) == <<x>>
IsSome(o) == Len(o) > 0
Unwrap(o) == o[1]

Upper == <<"A","B","C","D","E","F","G","H","I","J","K","L","M",
           "N","O","P","Q","R","S","T","U","V","W","X","Y","Z">>
Lower == <<"a","b","c","d","e","f","g","h","i","j","k","l","m",
           "n","o","p","q","r","s","t","u","v","w","x","y","z">>
Digits == <<"0","1","2","3","4","5","6","7","8","9">>

\* char::to_lowercase on the letters of the model's alphabet
LowerChar(c) ==
    IF \E i \in 1..26 : Upper[i] = c
    THEN Lower[CHOOSE i \in 1..26 : Upper[i] = c]
    ELSE c

\* str::to_lowercase
ToLower(s) == [i \in 1..Len(s) |-> LowerChar(s[i])]

IsWhitespace(c) == c \in {" ", "\n", "\t"}

RECURSIVE TrimStart(_)
TrimStart(s) ==
    IF s # <<>> /\ IsWhitespace(Head(s)) THEN TrimStart(Tail(s)) ELSE s

RECURSIVE TrimEnd(_)
TrimEnd(s) ==
    IF s # <<>> /\ IsWhitespace(s[Len(s)])
    THEN TrimEnd(SubSeq(s, 1, Len(s) - 1))
    ELSE s

\* str::trim
Trim(s) == TrimEnd(TrimStart(s))

\* str::contains: needle occurs in hay as a contiguous substring
Contains(hay, needle) ==
    \E i \in 0..(Len(hay) - Len(needle)) :
        SubSeq(hay, i + 1, i + Len(needle)) = needle

IsDigit(c) == \E i \in 1..10 : Digits[i] = c
DigitVal(c) == (CHOOSE i \in 1..10 : Digits[i] = c) - 1

RECURSIVE ParseNat(_)
ParseNat(s) ==
    IF s = <<>> THEN 0
    ELSE 10 * ParseNat(SubSeq(s, 1, Len(s) - 1)) + DigitVal(s[Len(s)])

\* All sequences over S of length at most n
RECURSIVE SeqsUpTo(_, _)
SeqsUpTo(S, n) ==
    IF n = 0 THEN {<<>>}
    ELSE LET shorter == SeqsUpTo(S, n - 1)
         IN  shorter \cup {Append(s, x) : s \in shorter, x \in S}

Min(S) == CHOOSE x \in S : \A y \in S : x <= y

\* ------------------------------------------------- languages (lib.rs 245-345)

Rust == "Rust"
Java == "Java"
Cpp == "C++"
SourceLanguage == {Rust, Java, Cpp}

IDENTS_RS == { <<"d","e","b","u","g">>, <<"i","n","f","o">>, <<"w","a","r","n">> }
IDENTS_JAVA == { <<"l","o","g","g","e","r">>, <<"l","o","g">>, <<"f","i","n","e">>,
                 <<"d","e","b","u","g">>, <<"i","n","f","o">>, <<"w","a","r","n">>,
                 <<"t","r","a","c","e">> }
IDENTS_CPP == { <<"d","e","b","u","g">>, <<"i","n","f","o">>, <<"w","a","r","n">>,
                <<"t","r","a","c","e">> }

get_identifiers(language) ==
    CASE language = Rust -> IDENTS_RS
      [] language = Java -> IDENTS_JAVA
      [] language = Cpp  -> IDENTS_CPP

CppExtensions == { <<"h">>, <<"h","h">>, <<"h","p","p">>, <<"h","x","x">>,
                   <<"t","p","p">>, <<"c","c">>, <<"c","p","p">>, <<"c","x","x">> }

\* SourceLanguage::from_extension: Some(language) or None
from_extension(extension) ==
    IF extension = <<"r","s">> THEN Some(Rust)
    ELSE IF extension = <<"j","a","v","a">> THEN Some(Java)
    ELSE IF extension \in CppExtensions THEN Some(Cpp)
    ELSE None

\* ---------------------------------------------------------------- patterns
\* A pattern is the anchored regular expression ^e1 e2 ... en$ kept as the
\* sequence of its elements: Group is the capture group (.*?), any other
\* element is one regex-escaped character, which matches itself.

Group == "(.*?)"

NoMatch == [ok |-> FALSE, caps |-> <<>>]

\* '.' matches any character but the line feed
DotMatches(s) == \A i \in 1..Len(s) : s[i] # "\n"

\* Regex::captures of the anchored pattern on s: the leftmost-first match,
\* each lazy group taking the shortest text that lets the rest match.
RECURSIVE MatchFrom(_, _)
MatchFrom(pat, s) ==
    IF pat = <<>> THEN
        IF s = <<>> THEN [ok |-> TRUE, caps |-> <<>>] ELSE NoMatch
    ELSE IF Head(pat) = Group THEN
        LET ks == { k \in 0..Len(s) :
                       /\ DotMatches(SubSeq(s, 1, k))
                       /\ MatchFrom(Tail(pat), SubSeq(s, k + 1, Len(s))).ok }
        IN  IF ks = {} THEN NoMatch
            ELSE LET k == Min(ks)
                     rest == MatchFrom(Tail(pat), SubSeq(s, k + 1, Len(s)))
                 IN  [ok |-> TRUE, caps |-> <<SubSeq(s, 1, k)>> \o rest.caps]
    ELSE IF s # <<>> /\ Head(s) = Head(pat) THEN MatchFrom(Tail(pat), Tail(s))
    ELSE NoMatch

\* SourceRef::captures(line): the groups after the implicit whole match
captures(src_ref, line) == MatchFrom(src_ref.pattern, line)

IsMatch(pattern, body) == MatchFrom(pattern, body).ok

\* The compiled size of a pattern set, counted in pattern elements, and the
\* size limit beyond which RegexSet::new fails with CompiledTooBig.
RECURSIVE CompiledSize(_)
CompiledSize(patterns) ==
    IF patterns = <<>> THEN 0
    ELSE Len(Head(patterns)) + 2 + CompiledSize(Tail(patterns))

RegexSetSizeLimit == 20

\* RegexSet::new(patterns): the set keeps the patterns in their order
RegexSetNew(patterns) ==
    [ok |-> CompiledSize(patterns) <= RegexSetSizeLimit, patterns |-> patterns]

\* RegexSet::matches(body): the indices (0-based) of the patterns matching
SetMatches(matcher, body) ==
    { i \in 0..(Len(matcher) - 1) : IsMatch(matcher[i + 1], body) }

\* Mutant of FirstMatch: the highest matching index is taken
FirstMatch_Highest(matcher, body) ==
    LET m == SetMatches(matcher, body)
    IN  IF m = {} THEN None ELSE Some(CHOOSE i \in m : \A j \in m : j <= i)

\* file_matches.iter().next(): the lowest matching index, or None
FirstMatch(matcher, body) ==
    LET m == SetMatches(matcher, body)
    IN  IF m = {} THEN None ELSE Some(Min(m))

\* ------------------------------------------- format literal -> pattern, args

Named(name) == [t |-> "Named", name |-> name, pos |-> 0]
Positional(pos) == [t |-> "Positional", name |-> <<>>, pos |-> pos]
Placeholder == [t |-> "Placeholder", name |-> <<>>, pos |-> 0]

PrintfConversions == {"s", "d", "u", "x", "f", "c", "p"}

\* index of the first "}" of s, 0 when there is none
CloseBrace(s) ==
    LET is == { i \in 1..Len(s) : s[i] = "}" }
    IN  IF is = {} THEN 0 ELSE Min(is)

BraceArgument(inner) ==
    IF inner = <<>> THEN Placeholder
    ELSE IF \A i \in 1..Len(inner) : IsDigit(inner[i]) THEN Positional(ParseNat(inner))
    ELSE Named(inner)

\* The literal's content scanned left to right (spec 4.5): each placeholder
\* becomes a Group and a descriptor, every other character is escaped.
RECURSIVE build_matcher(_, _)
build_matcher(language, lit) ==
    IF lit = <<>> THEN [pattern |-> <<>>, args |-> <<>>]
    ELSE
      LET c == Head(lit)
          close == CloseBrace(lit)
          brace == /\ c = "{"
                   /\ IF language = Rust THEN close > 0
                      ELSE language = Java /\ close = 2
          percent == /\ c = "%" /\ Len(lit) >= 2
                     /\ \/ language = Java
                        \/ language = Cpp /\ lit[2] \in PrintfConversions
          literalPercent == language = Cpp /\ c = "%" /\ Len(lit) >= 2 /\ lit[2] = "%"
      IN  IF brace THEN
              LET rest == build_matcher(language, SubSeq(lit, close + 1, Len(lit)))
              IN  [pattern |-> <<Group>> \o rest.pattern,
                   args |-> <<BraceArgument(SubSeq(lit, 2, close - 1))>> \o rest.args]
          ELSE IF literalPercent THEN
              LET rest == build_matcher(language, SubSeq(lit, 3, Len(lit)))
              IN  [pattern |-> <<"%">> \o rest.pattern, args |-> rest.args]
          ELSE IF percent THEN
              LET rest == build_matcher(language, SubSeq(lit, 3, Len(lit)))
              IN  [pattern |-> <<Group>> \o rest.pattern,
                   args |-> <<Placeholder>> \o rest.args]
          ELSE
              LET rest == build_matcher(language, Tail(lit))
              IN  [pattern |-> <<c>> \o rest.pattern, args |-> rest.args]

\* SourceRef::new(code, result): the source reference of one literal
SourceRefNew(code, result) ==
    LET m == build_matcher(code.info.language, result.text)
    IN  Some([source_path |-> code.path,
              line_no     |-> result.row + 1,
              end_line_no |-> result.row + 1,
              text        |-> result.text,
              vars        |-> <<>>,
              args        |-> m.args,
              pattern     |-> m.pattern])

\* ------------------------------------------ extract_logging (lib.rs 492-549)
\* A CodeSource is [path, info: [language, id], results]: results is the
\* ordered sequence of query matches SourceQuery yields for its buffer, each
\* a QueryResult [kind, text, row] (text: the buffer's text in the match's
\* byte range, row: the 0-based row the match ends on).

QueryResult(kind, text, row) == [kind |-> kind, text |-> text, row |-> row]

\* A variant that pushes the pattern again when an argument changes the
\* source reference
BuilderStep_RepushPattern(st, code, result) ==
    IF result.kind = "string_literal" THEN
        LET src_ref == SourceRefNew(code, result)
        IN  IF IsSome(src_ref)
            THEN [matched  |-> Append(st.matched, Unwrap(src_ref)),
                  patterns |-> Append(st.patterns, Unwrap(src_ref).pattern)]
            ELSE st
    ELSE IF result.kind \in {"args", "this"} THEN
        IF /\ st.matched # <<>>
           /\ \A s \in get_identifiers(code.info.language) : s # ToLower(result.text)
        THEN LET length == Len(st.matched) - 1
                 prior_result == st.matched[length + 1]
             IN  [matched  |-> [st.matched EXCEPT ![length + 1] =
                                   [prior_result EXCEPT
                                       !.end_line_no = result.row + 1,
                                       !.vars = Append(prior_result.vars, Trim(result.text))]],
                  patterns |-> Append(st.patterns, prior_result.pattern)]
        ELSE st
    ELSE st

\* A variant that gives an argument to the first pushed source reference
BuilderStep_FirstPushed(st, code, result) ==
    IF result.kind = "string_literal" THEN
        LET src_ref == SourceRefNew(code, result)
        IN  IF IsSome(src_ref)
            THEN [matched  |-> Append(st.matched, Unwrap(src_ref)),
                  patterns |-> Append(st.patterns, Unwrap(src_ref).pattern)]
            ELSE st
    ELSE IF result.kind \in {"args", "this"} THEN
        IF /\ st.matched # <<>>
           /\ \A s \in get_identifiers(code.info.language) : s # ToLower(result.text)
        THEN [st EXCEPT !.matched[1] =
                 [st.matched[1] EXCEPT
                     !.end_line_no = result.row + 1,
                     !.vars = Append(st.matched[1].vars, Trim(result.text))]]
        ELSE st
    ELSE st

\* One turn of `for result in results`, on the builder's state
\* [matched, patterns].
BuilderStep(st, code, result) ==
    IF result.kind = "string_literal" THEN
        LET src_ref == SourceRefNew(code, result)
        IN  IF IsSome(src_ref)
            THEN [matched  |-> Append(st.matched, Unwrap(src_ref)),
                  patterns |-> Append(st.patterns, Unwrap(src_ref).pattern)]
            ELSE st
    ELSE IF result.kind \in {"args", "this"} THEN
        IF /\ st.matched # <<>>
           /\ \A s \in get_identifiers(code.info.language) : s # ToLower(result.text)
        THEN LET length == Len(st.matched) - 1
                 prior_result == st.matched[length + 1]
             IN  [st EXCEPT !.matched[length + 1] =
                     [prior_result EXCEPT
                         !.end_line_no = result.row + 1,
                         !.vars = Append(prior_result.vars, Trim(result.text))]]
        ELSE st
    ELSE st

RECURSIVE BuilderLoop(_, _, _)
BuilderLoop(st, code, results) ==
    IF results = <<>> THEN st
    ELSE BuilderLoop(BuilderStep(st, code, Head(results)), code, Tail(results))

\* A variant that emits a record for a file in which no literal matched
ExtractFile_AlwaysEmits(code) ==
    LET st == BuilderLoop([matched |-> <<>>, patterns |-> <<>>], code, code.results)
    IN  [panic |-> FALSE,
         sif |-> Some([path           |-> code.path,
                       id             |-> code.info.id,
                       log_statements |-> st.matched,
                       matcher        |-> st.patterns])]

\* The closure of flat_map for one code source: [panic, sif] where sif is
\* None or Some(StatementsInFile); panic is the failed
\* RegexSet::new(patterns).expect("To combine patterns").
ExtractFile(code) ==
    LET st == BuilderLoop([matched |-> <<>>, patterns |-> <<>>], code, code.results)
        set == RegexSetNew(st.patterns)
    IN  IF st.matched = <<>> THEN [panic |-> FALSE, sif |-> None]
        ELSE IF ~set.ok THEN [panic |-> TRUE, sif |-> None]
        ELSE [panic |-> FALSE,
              sif |-> Some([path           |-> st.matched[1].source_path,
                            id             |-> code.info.id,
                            log_statements |-> st.matched,
                            matcher        |-> set.patterns])]

\* extract_logging(sources): [panic, sifs], the StatementsInFile of the
\* sources that have one, in the order of the sources.
RECURSIVE extract_logging(_)
extract_logging(sources) ==
    IF sources = <<>> THEN [panic |-> FALSE, sifs |-> <<>>]
    ELSE LET one == ExtractFile(Head(sources))
             rest == extract_logging(Tail(sources))
         IN  [panic |-> one.panic \/ rest.panic,
              sifs  |-> one.sif \o rest.sifs]

\* ------------------------------------------------- LogRef (lib.rs 362-415)

LogDetails(file, lineno, body) == [file |-> file, lineno |-> lineno, body |-> body]

\* LogRef::new
LogRefNew(line) == [line |-> line, details |-> None]

\* LogRef::from_parsed
from_parsed(file, lineno, body) ==
    [line |-> body, details |-> Some(LogDetails(file, lineno, Some(body)))]

\* LogRef::body
LogRefBody(log_ref) ==
    IF IsSome(log_ref.details) /\ IsSome(Unwrap(log_ref.details).body)
    THEN Unwrap(Unwrap(log_ref.details).body)
    ELSE log_ref.line

\* ---------------------------------------- extract_variables (lib.rs 441-469)

Unknown == <<"<","u","n","k","n","o","w","n",">">>

VariablePair(expr, value) == [expr |-> expr, value |-> value]

\* A variant that ignores details.body
ExtractLine_RawLine(log_ref) == log_ref.line

\* The text the pattern is applied to (lib.rs 443-446)
ExtractLine(log_ref) ==
    IF IsSome(log_ref.details)
    THEN LET details == Unwrap(log_ref.details)
         IN  IF IsSome(details.body) THEN Unwrap(details.body) ELSE log_ref.line
    ELSE log_ref.line

\* A variant that names every Placeholder after the first entry of vars
PlaceholderExpr_FirstVar(src_ref, index) ==
    LET placeholder == src_ref.args[index + 1]
    IN  IF placeholder.t = "Named" THEN Some(placeholder.name)
        ELSE IF placeholder.t = "Positional" THEN
            IF placeholder.pos < Len(src_ref.vars)
            THEN Some(src_ref.vars[placeholder.pos + 1])
            ELSE Some(Unknown)
        ELSE IF index < Len(src_ref.vars) THEN Some(src_ref.vars[1])
        ELSE None

\* The expression of the placeholder at position index (0-based) of the zip;
\* None where src_ref.vars[index] is out of range (the indexing panics).
PlaceholderExpr(src_ref, index) ==
    LET placeholder == src_ref.args[index + 1]
    IN  IF placeholder.t = "Named" THEN Some(placeholder.name)
        ELSE IF placeholder.t = "Positional" THEN
            IF placeholder.pos < Len(src_ref.vars)
            THEN Some(src_ref.vars[placeholder.pos + 1])
            ELSE Some(Unknown)
        ELSE IF index < Len(src_ref.vars) THEN Some(src_ref.vars[index + 1])
        ELSE None

\* extract_variables(log_ref, src_ref): [panic, variables]
extract_variables(log_ref, src_ref) ==
    LET line == ExtractLine(log_ref)
        caps == captures(src_ref, line)
    IN  IF ~caps.ok THEN [panic |-> FALSE, variables |-> <<>>]
        ELSE
          LET n == IF Len(caps.caps) < Len(src_ref.args)
                   THEN Len(caps.caps) ELSE Len(src_ref.args)
          IN  IF \E index \in 0..(n - 1) : ~IsSome(PlaceholderExpr(src_ref, index))
              THEN [panic |-> TRUE, variables |-> <<>>]
              ELSE [panic |-> FALSE,
                    variables |->
                       [i \in 1..n |->
                          VariablePair(Unwrap(PlaceholderExpr(src_ref, i - 1)),
                                       caps.caps[i])]]

\* --------------------------------------------- link_to_source (lib.rs 417-421)

\* A variant that applies the patterns to the raw line
link_to_source_RawLine(log_ref, src_refs) ==
    LET found == { i \in 1..Len(src_refs) : captures(src_refs[i], log_ref.line).ok }
    IN  IF found = {} THEN None ELSE Some(src_refs[Min(found)])

\* A variant whose patterns are searched for in the body, not anchored at
\* its start
link_to_source_AnySuffix(log_ref, src_refs) ==
    LET body == LogRefBody(log_ref)
        found == { i \in 1..Len(src_refs) :
                     \E k \in 1..(Len(body) + 1) :
                        captures(src_refs[i], SubSeq(body, k, Len(body))).ok }
    IN  IF found = {} THEN None ELSE Some(src_refs[Min(found)])

\* src_refs.iter().find(|r| r.captures(log_ref.body()).is_some())
link_to_source(log_ref, src_refs) ==
    LET found == { i \in 1..Len(src_refs) : captures(src_refs[i], LogRefBody(log_ref)).ok }
    IN  IF found = {} THEN None ELSE Some(src_refs[Min(found)])

\* ------------------------------------ log formats and filter_log (471-490)
\* A log format is a pattern of characters and named groups, anchored at both
\* ends of the line: [kind, name, class], a group taking as many characters
\* of its class as lets the rest match.

FormatChar(c) == [kind |-> "char", name |-> "", class |-> c]
FormatGroup(name, class) == [kind |-> "group", name |-> name, class |-> class]

\* The characters of a class: \w+, \d+ and .*
InClass(class, c) ==
    CASE class = "word"  -> IsDigit(c) \/ c = "_" \/ \E i \in 1..26 : c \in {Upper[i], Lower[i]}
      [] class = "digit" -> IsDigit(c)
      [] class = "any"   -> c # "\n"

MinLength(class) == IF class = "any" THEN 0 ELSE 1

\* How many characters at the start of s are of the class
ClassRun(class, s) ==
    LET others == { i \in 1..Len(s) : ~InClass(class, s[i]) }
    IN  IF others = {} THEN Len(s) ELSE Min(others) - 1

\* The match of the format on the whole of s: [ok, groups], groups the
\* [name, text] of its named groups; GroupTake has the first group take k
\* characters, or the most below k that let the rest match
RECURSIVE FormatMatch(_, _), GroupTake(_, _, _)
FormatMatch(format, s) ==
    IF format = <<>> THEN
        [ok |-> s = <<>>, groups |-> <<>>]
    ELSE IF Head(format).kind = "char" THEN
        IF s # <<>> /\ Head(s) = Head(format).class
        THEN FormatMatch(Tail(format), Tail(s))
        ELSE [ok |-> FALSE, groups |-> <<>>]
    ELSE GroupTake(format, s, ClassRun(Head(format).class, s))

GroupTake(format, s, k) ==
    LET Taking(rest) ==
            IF rest.ok
            THEN [ok |-> TRUE,
                  groups |-> <<[name |-> Head(format).name, text |-> SubSeq(s, 1, k)]>>
                             \o rest.groups]
            ELSE GroupTake(format, s, k - 1)
    IN  IF k < MinLength(Head(format).class)
        THEN [ok |-> FALSE, groups |-> <<>>]
        ELSE Taking(FormatMatch(Tail(format), SubSeq(s, k + 1, Len(s))))

\* Captures::name(name): the text of the named group, if the format has it
CaptureName(groups, name) ==
    LET is == { i \in 1..Len(groups) : groups[i].name = name }
    IN  IF is = {} THEN None ELSE Some(groups[Min(is)].text)

\* str::parse::<u32>().ok() on a text of digits: None when the number does
\* not fit 32 bits
U32Max == <<"4","2","9","4","9","6","7","2","9","5">>

RECURSIVE DigitsLeq(_, _)
DigitsLeq(a, b) ==
    IF a = <<>> THEN TRUE
    ELSE IF DigitVal(Head(a)) # DigitVal(Head(b)) THEN DigitVal(Head(a)) < DigitVal(Head(b))
    ELSE DigitsLeq(Tail(a), Tail(b))

RECURSIVE StripZeros(_)
StripZeros(s) == IF Len(s) > 1 /\ Head(s) = "0" THEN StripZeros(Tail(s)) ELSE s

\* The number is kept as its decimal digits without leading zeros
ParseU32(s) ==
    IF s = <<>> \/ \E i \in 1..Len(s) : ~IsDigit(s[i]) THEN None
    ELSE IF Len(StripZeros(s)) < 10 THEN Some(StripZeros(s))
    ELSE IF Len(StripZeros(s)) = 10 /\ DigitsLeq(StripZeros(s), U32Max) THEN Some(StripZeros(s))
    ELSE None

\* LogRef::with_format(line, log_format), on a line the format matches
with_format(line, log_format) ==
    LET Details(caps) ==
            LogDetails(CaptureName(caps, "file"),
                       IF IsSome(CaptureName(caps, "line"))
                       THEN ParseU32(Unwrap(CaptureName(caps, "line")))
                       ELSE None,
                       CaptureName(caps, "body"))
    IN  [line |-> line, details |-> Some(Details(FormatMatch(log_format, line).groups))]

\* str::lines: the text split at its line feeds, the carriage return before
\* a line feed dropped with it, no last line after a final line feed
RECURSIVE Lines(_)
Lines(buffer) ==
    IF buffer = <<>> THEN <<>>
    ELSE
      LET ends == { i \in 1..Len(buffer) : buffer[i] = "\n" }
          stop == IF ends = {} THEN Len(buffer) + 1 ELSE Min(ends)
          raw  == SubSeq(buffer, 1, stop - 1)
          line == IF ends # {} /\ raw # <<>> /\ raw[Len(raw)] = "\r"
                  THEN SubSeq(raw, 1, Len(raw) - 1) ELSE raw
      IN  <<line>> \o Lines(SubSeq(buffer, stop + 1, Len(buffer)))

\* A variant whose range includes its end
RangeContains_EndIncluded(filter, line_no) ==
    /\ IsSome(filter.start) => Unwrap(filter.start) <= line_no
    /\ IsSome(filter.end) => line_no <= Unwrap(filter.end)

\* RangeBounds::contains(&line_no) for start..end, start.., ..end and ..
RangeContains(filter, line_no) ==
    /\ IsSome(filter.start) => Unwrap(filter.start) <= line_no
    /\ IsSome(filter.end) => line_no < Unwrap(filter.end)

\* The filter_map of filter_log over the enumerated lines, from line_no on
RECURSIVE FilterMap(_, _, _, _)
FilterMap(lines, line_no, filter, log_format) ==
    IF lines = <<>> THEN <<>>
    ELSE (IF RangeContains(filter, line_no)
          THEN IF IsSome(log_format)
               THEN <<with_format(Head(lines), Unwrap(log_format))>>
               ELSE <<LogRefNew(Head(lines))>>
          ELSE <<>>)
         \o FilterMap(Tail(lines), line_no + 1, filter, log_format)

\* filter_log(buffer, filter, log_format)
filter_log(buffer, filter, log_format) == FilterMap(Lines(buffer), 0, filter, log_format)

\* -------------------------------------------------------------------- paths
\* A path is the sequence of its components, each a text.

\* Path::starts_with: component-wise prefix
StartsWith(path, base) ==
    /\ Len(base) <= Len(path)
    /\ SubSeq(path, 1, Len(base)) = base

\* The path as a string, components joined by "/"
RECURSIVE PathStr(_)
PathStr(path) ==
    IF path = <<>> THEN <<>>
    ELSE IF Len(path) = 1 THEN path[1]
    ELSE path[1] \o <<"/">> \o PathStr(Tail(path))

\* Path::extension of the last component: the text after its last "."
Extension(path) ==
    LET name == path[Len(path)]
        dots == { i \in 2..Len(name) : name[i] = "." }
    IN  IF dots = {} THEN None
        ELSE Some(SubSeq(name, (CHOOSE i \in dots : \A j \in dots : j <= i) + 1, Len(name)))

\* SourceLanguage::from_path
from_path(path) ==
    IF IsSome(Extension(path)) THEN from_extension(Unwrap(Extension(path))) ELSE None

RootA == << <<"a">> >>
RootAB == << <<"a">>, <<"b">> >>
RootPaths == {RootA, RootAB}

FileX == << <<"a">>, <<"b">>, <<"x", ".", "r", "s">> >>
FileY == << <<"a">>, <<"y", ".", "j", "a", "v", "a">> >>
\* The files of the modelled filesystem, in the order a traversal meets them
FileOrder == <<FileX, FileY>>
FilePaths == {FileOrder[i] : i \in 1..Len(FileOrder)}

\* ---------------------------------------------------------- file contents
\* What a source file holds, as the query matches of its buffer; the row of
\* a match is its place in the sequence (matches come in source order).

Lit(text) == [kind |-> "string_literal", text |-> text]
Arg(text) == [kind |-> "args", text |-> text]
This == [kind |-> "this", text |-> <<"t","h","i","s">>]
Other == [kind |-> "method-name", text |-> <<"i","n","f","o">>]

WithRows(items) ==
    [i \in 1..Len(items) |-> QueryResult(items[i].kind, items[i].text, i - 1)]

NoCallSites == WithRows(<< Other >>)
TwoCalls == WithRows(<< Lit(<<"a","{","}">>), Arg(<<"i">>), Lit(<<"{","}","1">>), Arg(<<"j">>) >>)
CallWithoutArgs == WithRows(<< Lit(<<"{","}">>) >>)
Contents == {NoCallSites, TwoCalls, CallWithoutArgs}

\* ------------------------------------------------------------- finite maps

MapInsert(m, k, v) == [x \in DOMAIN m \cup {k} |-> IF x = k THEN v ELSE m[x]]
MapRemove(m, k) == [x \in DOMAIN m \ {k} |-> m[x]]
EmptyMap == [x \in {} |-> 0]
Values(m) == {m[x] : x \in DOMAIN m}

\* ----------------------------------------------------- the source-tree index
\* SourceHierTree: nodes maps each file the tree knows to [id, stamp] (stamp:
\* what sync saw of the file, standing for its modification time), pending is
\* the stream of ScanEvents accumulated since the last scan, next_id the
\* counter file ids are drawn from.

NewFile(path, id, language) ==
    [kind |-> "NewFile", path |-> path, id |-> id, language |-> language]
DeletedFile(path, id) ==
    [kind |-> "DeletedFile", path |-> path, id |-> id, language |-> ""]

\* SourceHierTree::from(path)
TreeFrom(path) == [root |-> path, nodes |-> EmptyMap, pending |-> <<>>, next_id |-> 0]

\* sync, for one file of the filesystem disk
SyncFile(t, f, disk) ==
    IF ~StartsWith(f, t.root) \/ ~IsSome(from_path(f)) THEN t
    ELSE IF IsSome(disk[f]) /\ f \notin DOMAIN t.nodes THEN
        [t EXCEPT !.nodes = MapInsert(t.nodes, f, [id |-> t.next_id, stamp |-> disk[f]]),
                  !.pending = Append(t.pending, NewFile(f, t.next_id, Unwrap(from_path(f)))),
                  !.next_id = t.next_id + 1]
    ELSE IF IsSome(disk[f]) /\ t.nodes[f].stamp # disk[f] THEN
        [t EXCEPT !.nodes[f].stamp = disk[f],
                  !.pending = Append(t.pending, NewFile(f, t.nodes[f].id, Unwrap(from_path(f))))]
    ELSE IF ~IsSome(disk[f]) /\ f \in DOMAIN t.nodes THEN
        [t EXCEPT !.nodes = MapRemove(t.nodes, f),
                  !.pending = Append(t.pending, DeletedFile(f, t.nodes[f].id))]
    ELSE t

RECURSIVE SyncFiles(_, _, _)
SyncFiles(t, files, disk) ==
    IF files = <<>> THEN t
    ELSE SyncFiles(SyncFile(t, Head(files), disk), Tail(files), disk)

\* SourceHierTree::sync
TreeSync(t, disk) == SyncFiles(t, FileOrder, disk)

\* SourceHierTree::find_file
find_file(t, path) ==
    IF path \in DOMAIN t.nodes
    THEN Some([id |-> t.nodes[path].id, language |-> Unwrap(from_path(path))])
    ELSE None

\* -------------------------------------------------------------------- state

VARIABLES
    roots,      \* LogMatcher.roots: root path -> SourceTree [tree, files_with_statements]
    fs,         \* the filesystem: file path -> None | Some(content)
    edits,      \* filesystem edits made so far
    ret,        \* the call the caller holds the result of: [op, arg, val], or NoCall
    panicked,   \* the last call panicked (todo!(), expect, an index out of range)
    code,       \* a loaded CodeSource (Option)
    built,      \* what extract_logging made of it (Option of StatementsInFile)
    vcall,      \* the last call of extract_variables: [log_ref, src_ref, out] (Option)
    lcall,      \* the last call of link_to_source: [src_refs, log_ref, out, vars] (Option)
    fcall,      \* the last call of filter_log: [entries, lines, buffer, filter, log_format, out] (Option)
    pcall       \* a chunk under extraction: [phase, before, sources, pos, st, out, sifs, fws] (Option)

vars == <<roots, fs, edits, ret, panicked, code, built, vcall, lcall, fcall, pcall>>

matcherVars == <<roots, fs, edits, ret, panicked>>
extractVars == <<code, built, vcall, lcall, fcall, pcall>>

NoCall == [op |-> "none", arg |-> None, val |-> None]

\* The matcher has one caller (its methods take &self or &mut self): a call
\* starts when the caller holds no result and nothing has panicked.
Idle == ~panicked /\ ret = NoCall

\* The caller takes the result of the call it made
Return ==
    /\ ~panicked
    /\ ret # NoCall
    /\ ret' = NoCall
    /\ UNCHANGED <<roots, fs, edits, panicked, extractVars>>

\* ------------------------------------------- LogMatcher (lib.rs 83-243)

\* LogMatcher::match_path: the roots that cover path; the HashMap's iteration
\* order decides which of them `.next()` yields.
match_path(rs, path) == { existing_path \in DOMAIN rs : StartsWith(path, existing_path) }

\* LogMatcher::add_root
add_root(rs, path) ==
    IF match_path(rs, path) # {} THEN rs
    ELSE MapInsert(rs, path, [tree |-> TreeFrom(path), files_with_statements |-> EmptyMap])

\* LogMatcher::is_empty
is_empty(rs) == \A path \in DOMAIN rs : DOMAIN rs[path].files_with_statements = {}

\* What add_root returns: Ok(()) on both branches (lib.rs 113)
add_root_result(rs, path) == "Ok"

AddRoot(path) ==
    /\ Idle
    /\ roots' = add_root(roots, path)
    /\ ret' = [op |-> "add_root", arg |-> path, val |-> add_root_result(roots, path)]
    /\ UNCHANGED <<fs, edits, panicked, extractVars>>

\* A variant that starts every root's statements afresh
discover_sources_Reset(rs, disk) ==
    [path \in DOMAIN rs |-> [tree |-> TreeSync(rs[path].tree, disk),
                             files_with_statements |-> EmptyMap]]

\* LogMatcher::discover_sources: sync every root; the errors of the trees'
\* Error nodes are returned (this filesystem has none).
discover_sources(rs, disk) ==
    [path \in DOMAIN rs |-> [rs[path] EXCEPT !.tree = TreeSync(rs[path].tree, disk)]]

DiscoverSources ==
    /\ Idle
    /\ roots' = discover_sources(roots, fs)
    /\ ret' = [op |-> "discover_sources", arg |-> None, val |-> <<>>]
    /\ UNCHANGED <<fs, edits, panicked, extractVars>>

\* LogMatcher::find_source_file_statements, for the root match_path yields
find_source_file_statements(rs, root_path, path) ==
    LET src_tree == rs[root_path]
        info == find_file(src_tree.tree, path)
    IN  IF IsSome(info) /\ Unwrap(info).id \in DOMAIN src_tree.files_with_statements
        THEN Some(src_tree.files_with_statements[Unwrap(info).id])
        ELSE None

\* `coll.tree.scan().chunks(10)`: the size of a chunk of events
ChunkSize == 10

\* CodeSource::new(path, info, file) on the opened file
CodeSourceNew(event, content) ==
    [path    |-> PathStr(event.path),
     info    |-> [language |-> event.language, id |-> event.id],
     results |-> content]

\* One event of the flat_map over a chunk (lib.rs 166-179): a NewFile adds
\* the loaded CodeSource to sources (todo!() panics when the file cannot be
\* opened), a DeletedFile removes its id from the map at once.
LoadEvent(acc, event, disk) ==
    IF event.kind = "NewFile" THEN
        IF IsSome(disk[event.path])
        THEN [acc EXCEPT !.sources =
                 Append(acc.sources, CodeSourceNew(event, Unwrap(disk[event.path])))]
        ELSE [acc EXCEPT !.panic = TRUE]
    ELSE [acc EXCEPT !.fws = MapRemove(acc.fws, event.id)]

\* The flat_map over one chunk (lib.rs 165-181), event by event, up to a panic
RECURSIVE LoadChunk(_, _, _)
LoadChunk(acc, chunk, disk) ==
    IF chunk = <<>> \/ acc.panic THEN acc
    ELSE LoadChunk(LoadEvent(acc, Head(chunk), disk), Tail(chunk), disk)

RECURSIVE InsertAll(_, _)
InsertAll(fws, sifs) ==
    IF sifs = <<>> THEN fws
    ELSE InsertAll(MapInsert(fws, Head(sifs).id, Head(sifs)), Tail(sifs))

\* The body of `for event_chunk in ...` (lib.rs 164-187): [panic, fws]
ProcessChunk(fws, chunk, disk) ==
    LET Insert(loaded, extracted) ==
            IF loaded.panic \/ extracted.panic THEN [panic |-> TRUE, fws |-> fws]
            ELSE [panic |-> FALSE, fws |-> InsertAll(loaded.fws, extracted.sifs)]
        Extract(loaded) ==
            Insert(loaded, extract_logging(IF loaded.panic THEN <<>> ELSE loaded.sources))
    IN  Extract(LoadChunk([panic |-> FALSE, fws |-> fws, sources |-> <<>>], chunk, disk))

RECURSIVE ProcessEvents(_, _, _)
ProcessEvents(fws, events, disk) ==
    IF events = <<>> THEN [panic |-> FALSE, fws |-> fws]
    ELSE
      LET n == IF Len(events) < ChunkSize THEN Len(events) ELSE ChunkSize
          Rest(done) ==
              IF done.panic THEN done
              ELSE ProcessEvents(done.fws, SubSeq(events, n + 1, Len(events)), disk)
      IN  Rest(ProcessChunk(fws, SubSeq(events, 1, n), disk))

\* A variant that rebuilds the map from the events of this scan alone
ExtractRoot_FreshMap(coll, disk) ==
    LET Result(done) ==
            [panic |-> done.panic,
             coll  |-> [tree |-> [coll.tree EXCEPT !.pending = <<>>],
                        files_with_statements |-> done.fws]]
    IN  Result(ProcessEvents(EmptyMap, coll.tree.pending, disk))

\* The closure of `self.roots.iter_mut().for_each` for one root: the scan
\* drains the tree's pending events.
ExtractRoot(coll, disk) ==
    LET Result(done) ==
            [panic |-> done.panic,
             coll  |-> [tree |-> [coll.tree EXCEPT !.pending = <<>>],
                        files_with_statements |-> done.fws]]
    IN  Result(ProcessEvents(coll.files_with_statements, coll.tree.pending, disk))

\* LogMatcher::extract_log_statements: [panic, roots]
extract_log_statements(rs, disk) ==
    LET Collect(done) ==
            [panic |-> \E path \in DOMAIN rs : done[path].panic,
             roots |-> [path \in DOMAIN rs |-> done[path].coll]]
    IN  Collect([path \in DOMAIN rs |-> ExtractRoot(rs[path], disk)])

ExtractLogStatements ==
    /\ Idle
    /\ \E done \in {extract_log_statements(roots, fs)} :
           /\ panicked' = done.panic
           /\ roots' = IF done.panic THEN roots ELSE done.roots
    /\ ret' = [op |-> "extract_log_statements", arg |-> roots, val |-> None]
    /\ UNCHANGED <<fs, edits, extractVars>>

\* The log line carries a file hint and a body (the pattern of lib.rs 202-206)
HasHints(log_ref) ==
    /\ IsSome(log_ref.details)
    /\ IsSome(Unwrap(log_ref.details).file)
    /\ IsSome(Unwrap(log_ref.details).body)

\* What one file contributes to `matches` (the closures of lib.rs 212-218
\* and 223-229): the source reference at the matcher's first index, if any
FileMatch(stmts, body) ==
    LET index == FirstMatch(stmts.matcher, body)
    IN  IF IsSome(index) /\ Unwrap(index) < Len(stmts.log_statements)
        THEN Some(stmts.log_statements[Unwrap(index) + 1])
        ELSE None

\* Mutant of ProbedFiles: the file hint does not restrict the files
ProbedFiles_NoFilter(coll, log_ref) == Values(coll.files_with_statements)

\* The files of a root that are probed for the log line
ProbedFiles(coll, log_ref) ==
    IF HasHints(log_ref)
    THEN { stmts \in Values(coll.files_with_statements) :
              Contains(stmts.path, Unwrap(Unwrap(log_ref.details).file)) }
    ELSE Values(coll.files_with_statements)

\* The text the matchers are probed with
ProbeBody(log_ref) ==
    IF HasHints(log_ref) THEN Unwrap(Unwrap(log_ref.details).body) ELSE LogRefBody(log_ref)

\* The elements of `matches` for one root; which of them is first is the
\* HashMap's iteration order.
RootMatches(coll, log_ref) ==
    { Unwrap(FileMatch(stmts, ProbeBody(log_ref))) :
        stmts \in { f \in ProbedFiles(coll, log_ref) :
                       IsSome(FileMatch(f, ProbeBody(log_ref))) } }

\* LogMatcher::match_log_statement: the source references the call may
\* select, over the iteration orders of the roots and of their files
MatchCandidates(rs, log_ref) ==
    UNION { RootMatches(rs[path], log_ref) : path \in DOMAIN rs }

LogMapping(log_ref, src_ref, variables) ==
    [log_ref |-> log_ref, src_ref |-> src_ref, variables |-> variables]

\* The log lines the matcher is asked about
Hints == { <<"x">>, <<"y", ".">> }
MatchLine == <<"1", "a", "1">>
MatchBodies == { <<"a", "1">>, <<"1">>, <<"1", "a">> }
MatchDetails ==
    { LogDetails(file, None, body) :
        file \in {None} \cup {Some(h) : h \in Hints},
        body \in {None} \cup {Some(b) : b \in { c \in MatchBodies : Contains(MatchLine, c) /\ Len(c) = 2 }} }
MatchLogRefs ==
    { LogRefNew(line) : line \in MatchBodies }
    \cup { [line |-> MatchLine, details |-> Some(d)] : d \in MatchDetails }

MatchLogStatement(log_ref) ==
    /\ Idle
    /\ IF MatchCandidates(roots, log_ref) = {}
       THEN /\ ret' = [op |-> "match_log_statement", arg |-> log_ref, val |-> None]
            /\ UNCHANGED panicked
       ELSE \E src_ref \in MatchCandidates(roots, log_ref) :
              LET out == extract_variables(log_ref, src_ref)
              IN  /\ panicked' = out.panic
                  /\ ret' = [op  |-> "match_log_statement",
                             arg |-> log_ref,
                             val |-> IF out.panic THEN None
                                     ELSE Some(LogMapping(log_ref, Some(src_ref), out.variables))]
    /\ UNCHANGED <<roots, fs, edits, extractVars>>

IsEmpty ==
    /\ Idle
    /\ ret' = [op |-> "is_empty", arg |-> None, val |-> is_empty(roots)]
    /\ UNCHANGED <<roots, fs, edits, panicked, extractVars>>

FindSourceFileStatements(path) ==
    /\ Idle
    /\ IF match_path(roots, path) = {}
       THEN ret' = [op |-> "find_source_file_statements", arg |-> path, val |-> None]
       ELSE \E root_path \in match_path(roots, path) :
              ret' = [op  |-> "find_source_file_statements",
                      arg |-> path,
                      val |-> find_source_file_statements(roots, root_path, path)]
    /\ UNCHANGED <<roots, fs, edits, panicked, extractVars>>

\* ------------------------------------------------------- the environment

\* A source file is written (created or modified)
WriteFile(f, content) ==
    /\ Idle
    /\ edits < MaxEdits
    /\ fs[f] # Some(content)
    /\ fs' = [fs EXCEPT ![f] = Some(content)]
    /\ edits' = edits + 1
    /\ UNCHANGED <<roots, ret, panicked, extractVars>>

\* A source file is removed
RemoveFile(f) ==
    /\ Idle
    /\ edits < MaxEdits
    /\ IsSome(fs[f])
    /\ fs' = [fs EXCEPT ![f] = None]
    /\ edits' = edits + 1
    /\ UNCHANGED <<roots, ret, panicked, extractVars>>

\* ---------------------------------------------------------- specification

\* LogMatcher::new, on an empty filesystem
Init ==
    /\ roots = EmptyMap
    /\ fs = [f \in FilePaths |-> None]
    /\ edits = 0
    /\ ret = NoCall
    /\ panicked = FALSE
    /\ code = None
    /\ built = None
    /\ vcall = None
    /\ lcall = None
    /\ fcall = None
    /\ pcall = None

Next ==
    \/ \E path \in RootPaths : AddRoot(path)
    \/ DiscoverSources
    \/ ExtractLogStatements
    \/ \E log_ref \in MatchLogRefs : MatchLogStatement(log_ref)
    \/ IsEmpty
    \/ \E path \in FilePaths : FindSourceFileStatements(path)
    \/ \E f \in FilePaths, content \in Contents : WriteFile(f, content)
    \/ \E f \in FilePaths : RemoveFile(f)
    \/ Return

Spec == Init /\ [][Next]_vars

\* ------------------------------------- extraction of one in-memory source
\* The second specification drives extract_logging and extract_variables the
\* way the crate's tests do: a CodeSource held in memory is extracted, one of
\* its source references is taken, and extract_variables is called on it
\* with a log line.

MemNames == { <<"m", ".", "r", "s">>, <<"m", ".", "j", "a", "v", "a">>, <<"m", ".", "c", "c">> }

Literals == { <<"a", "{", "}">>,
              <<"{", "n", "}", "{", "}">>,
              <<"{", "}", "{", "1", "}">>,
              <<"%", "s", "a">> }
ArgTexts == { <<"i">>, <<" ", "j">>, <<"L", "o", "g">>, <<"l", "o", "g", " ">> }
QueryItems == {Lit(t) : t \in Literals} \cup {Arg(t) : t \in ArgTexts} \cup {This, Other}

\* CodeSource::from_string(path, source)
from_string(name, items) ==
    [path    |-> PathStr(<<name>>),
     info    |-> [language |-> Unwrap(from_path(<<name>>)), id |-> 0],
     results |-> WithRows(items)]

CodeSources == { from_string(name, items) :
                   name \in MemNames, items \in SeqsUpTo(QueryItems, MaxResults) }

BodyChars == {"a", "1"}
Bodies == SeqsUpTo(BodyChars, MaxBody)

Suffixes(s) == { SubSeq(s, i, Len(s)) : i \in 1..(Len(s) + 1) }

\* The log lines: without details, with details that carry no body, and with
\* a body that is a part of the line
LogRefs ==
    { LogRefNew(line) : line \in Bodies }
    \cup { [line |-> line, details |-> Some(LogDetails(None, None, None))] : line \in Bodies }
    \cup UNION { { [line |-> line, details |-> Some(LogDetails(None, None, Some(body)))] :
                     body \in Suffixes(line) } : line \in Bodies }

NoVars == [panic |-> FALSE, variables |-> <<>>]

\* extract_logging(&[code], ..)
RunExtractLogging ==
    /\ ~panicked
    /\ IsSome(code) /\ ~IsSome(built) /\ ~IsSome(vcall) /\ ~IsSome(lcall)
    /\ LET done == extract_logging(code)
       IN  /\ panicked' = done.panic
           /\ built' = done.sifs
    /\ UNCHANGED <<roots, fs, edits, ret, code, vcall, lcall, fcall, pcall>>

\* `.pop().unwrap().log_statements`, then &src_refs[i]: the code source and
\* the StatementsInFile are dropped
TakeSourceRef(i) ==
    /\ ~panicked
    /\ IsSome(built) /\ ~IsSome(vcall)
    /\ i \in 1..Len(Unwrap(built).log_statements)
    /\ vcall' = Some([src_ref |-> Unwrap(built).log_statements[i],
                      log_ref |-> None,
                      out     |-> NoVars])
    /\ code' = None
    /\ built' = None
    /\ UNCHANGED <<roots, fs, edits, ret, panicked, lcall, fcall, pcall>>

\* extract_variables(&log_ref, src_ref)
ExtractVariables(log_ref) ==
    /\ ~panicked
    /\ IsSome(vcall) /\ ~IsSome(Unwrap(vcall).log_ref)
    /\ LET out == extract_variables(log_ref, Unwrap(vcall).src_ref)
       IN  /\ vcall' = Some([src_ref |-> Unwrap(vcall).src_ref,
                             log_ref |-> Some(log_ref),
                             out     |-> out])
           /\ panicked' = out.panic
    /\ UNCHANGED <<roots, fs, edits, ret, code, built, lcall, fcall, pcall>>

InitExtract ==
    /\ roots = EmptyMap
    /\ fs = [f \in FilePaths |-> None]
    /\ edits = 0
    /\ ret = NoCall
    /\ panicked = FALSE
    /\ code \in { Some(c) : c \in CodeSources }
    /\ built = None
    /\ vcall = None
    /\ lcall = None
    /\ fcall = None
    /\ pcall = None

NextExtract ==
    \/ RunExtractLogging
    \/ \E i \in 1..MaxResults : TakeSourceRef(i)
    \/ \E log_ref \in LogRefs : ExtractVariables(log_ref)

SpecExtract == InitExtract /\ [][NextExtract]_vars

\* ------------------------------------------- linking a line to its source
\* The third specification links log lines to the source references of one
\* in-memory source, as the crate's tests do: extract_logging, then
\* link_to_source, then extract_variables on the reference found.

LinkLiterals == { <<"a", "{", "}">>,
                  <<"{", "}", "{", "}">>,
                  <<"%", "s", "a">>,
                  <<"a">> }
LinkItems == {Lit(t) : t \in LinkLiterals} \cup {Arg(<<"i">>), Arg(<<"j">>)}

LinkSources == { from_string(name, items) :
                   name \in MemNames, items \in SeqsUpTo(LinkItems, MaxResults) }

\* The pattern with its groups replaced, in order, by the texts of subs
RECURSIVE Fill(_, _)
Fill(pattern, subs) ==
    IF pattern = <<>> THEN <<>>
    ELSE IF Head(pattern) = Group
         THEN Head(subs) \o Fill(Tail(pattern), Tail(subs))
         ELSE <<Head(pattern)>> \o Fill(Tail(pattern), subs)

\* The literal has only {} or %s placeholders, each with an argument name
HasArgumentNames(src_ref) ==
    /\ \A i \in 1..Len(src_ref.args) : src_ref.args[i].t = "Placeholder"
    /\ Len(src_ref.vars) >= Len(src_ref.args)

\* The log body made of the literal by putting each argument's name in the
\* place of its placeholder
SyntheticBody(src_ref) == Fill(src_ref.pattern, src_ref.vars)

SyntheticLogRefs(src_refs) ==
    { LogRefNew(SyntheticBody(src_refs[i])) :
        i \in { j \in 1..Len(src_refs) : HasArgumentNames(src_refs[j]) } }

\* The log lines: a line alone, and a line whose body follows a prefix
LinkChars == BodyChars \cup {"\n"}
LinkLogRefs ==
    { LogRefNew(line) : line \in SeqsUpTo(LinkChars, MaxBody) }
    \cup { [line |-> <<"1">> \o body, details |-> Some(LogDetails(None, None, Some(body)))] :
             body \in Bodies }

\* link_to_source(&log_ref, &src_refs) on the log_statements of the extracted
\* file; the code source and the StatementsInFile are dropped
LinkToSource(log_ref) ==
    /\ ~panicked
    /\ IsSome(built) /\ ~IsSome(vcall) /\ ~IsSome(lcall)
    /\ lcall' = Some([src_refs |-> Unwrap(built).log_statements,
                      log_ref  |-> log_ref,
                      out      |-> link_to_source(log_ref, Unwrap(built).log_statements),
                      vars     |-> None])
    /\ code' = None
    /\ built' = None
    /\ UNCHANGED <<roots, fs, edits, ret, panicked, vcall, fcall, pcall>>

\* extract_variables(&log_ref, result.unwrap())
ExtractLinked ==
    /\ ~panicked
    /\ IsSome(lcall)
    /\ IsSome(Unwrap(lcall).out) /\ ~IsSome(Unwrap(lcall).vars)
    /\ \E done \in {extract_variables(Unwrap(lcall).log_ref, Unwrap(Unwrap(lcall).out))} :
          /\ lcall' = Some([Unwrap(lcall) EXCEPT !.vars = Some(done.variables)])
          /\ panicked' = done.panic
    /\ UNCHANGED <<roots, fs, edits, ret, code, built, vcall, fcall, pcall>>

InitLink ==
    /\ roots = EmptyMap
    /\ fs = [f \in FilePaths |-> None]
    /\ edits = 0
    /\ ret = NoCall
    /\ panicked = FALSE
    /\ code \in { Some(c) : c \in LinkSources }
    /\ built = None
    /\ vcall = None
    /\ lcall = None
    /\ fcall = None
    /\ pcall = None

NextLink ==
    \/ RunExtractLogging
    \/ \E log_ref \in LinkLogRefs : LinkToSource(log_ref)
    \/ \E log_ref \in UNION { SyntheticLogRefs(Unwrap(b).log_statements) : b \in {built} \ {None} } :
          LinkToSource(log_ref)
    \/ ExtractLinked

SpecLink == InitLink /\ [][NextLink]_vars

\* ------------------------------------------------ filter_log on a buffer
\* lib.rs 556-600: a buffer of lines, a range of line numbers and an
\* optional log format.

MaxLines == 3

\* The formats: "file:line body", "level body" and the body alone
LogFormats ==
    { <<FormatGroup("file", "word"), FormatChar(":"), FormatGroup("line", "digit"),
        FormatChar(" "), FormatGroup("body", "any")>>,
      <<FormatGroup("level", "word"), FormatChar(" "), FormatGroup("body", "any")>>,
      <<FormatGroup("body", "any")>> }

\* What a line is written from: the text of each group, and the number its
\* line text writes
LogEntries ==
    { [file |-> <<"f">>, line |-> <<"1">>, lineno |-> Some(<<"1">>),
       level |-> <<"I">>, body |-> <<"b">>],
      [file |-> <<"g">>, line |-> <<"0","2","0">>, lineno |-> Some(<<"2","0">>),
       level |-> <<"W","_">>, body |-> <<>>],
      [file |-> <<"f","2">>, line |-> <<"4","2","9","4","9","6","7","2","9","6">>, lineno |-> None,
       level |-> <<"I">>, body |-> <<"f",":","1"," ","b">>],
      [file |-> <<"_">>, line |-> <<"4","2","9","4","9","6","7","2","9","5">>, lineno |-> Some(U32Max),
       level |-> <<"E">>, body |-> <<" ","a",":"," ">>] }

\* The line of an entry under a format
RECURSIVE Render(_, _)
Render(format, entry) ==
    IF format = <<>> THEN <<>>
    ELSE (IF Head(format).kind = "char" THEN <<Head(format).class>>
          ELSE entry[Head(format).name])
         \o Render(Tail(format), entry)

\* The lines of a log without a format
PlainLines == { <<>>, <<"h","i">>, <<"f",":","1"," ","b">>, <<" ">> }

\* The lines joined into a buffer, each ended by the terminator but the last,
\* which is ended when final
RECURSIVE JoinLines(_, _, _)
JoinLines(lines, terminator, final) ==
    IF lines = <<>> THEN <<>>
    ELSE Head(lines)
         \o (IF Len(lines) > 1 \/ final THEN terminator ELSE <<>>)
         \o JoinLines(Tail(lines), terminator, final)

Terminators == { <<"\n">>, <<"\r", "\n">> }

\* start..end, start.., ..end and .. over the line numbers
Filters ==
    { [start |-> s, end |-> e] :
        s \in {None} \cup {Some(n) : n \in 0..MaxLines - 1},
        e \in {None} \cup {Some(n) : n \in 0..MaxLines} }

\* filter_log(&buffer, filter, log_format) on the buffer of these lines,
\* written from these entries when there is a format
CallFilterLog(entries, lines, terminator, final, filter, log_format) ==
    /\ fcall = None
    /\ lines # <<>> /\ lines[Len(lines)] = <<>> => final
    /\ \E buffer \in {JoinLines(lines, terminator, final)} :
         fcall' = Some([entries    |-> entries,
                        lines      |-> lines,
                        buffer     |-> buffer,
                        filter     |-> filter,
                        log_format |-> log_format,
                        out        |-> filter_log(buffer, filter, log_format)])
    /\ UNCHANGED <<roots, fs, edits, ret, panicked, code, built, vcall, lcall, pcall>>

FilterLog(lines, terminator, final, filter) ==
    CallFilterLog(<<>>, lines, terminator, final, filter, None)

FilterLogWithFormat(entries, terminator, final, filter, format) ==
    CallFilterLog(entries, [i \in 1..Len(entries) |-> Render(format, entries[i])],
                  terminator, final, filter, Some(format))

InitFilter ==
    /\ roots = EmptyMap
    /\ fs = [f \in FilePaths |-> None]
    /\ edits = 0
    /\ ret = NoCall
    /\ panicked = FALSE
    /\ code = None
    /\ built = None
    /\ vcall = None
    /\ lcall = None
    /\ fcall = None
    /\ pcall = None

NextFilter ==
    \/ /\ fcall = None
       /\ \E lines \in SeqsUpTo(PlainLines, MaxLines), terminator \in Terminators,
             final \in BOOLEAN, filter \in Filters :
             FilterLog(lines, terminator, final, filter)
    \/ /\ fcall = None
       /\ \E entries \in SeqsUpTo(LogEntries, MaxLines), terminator \in Terminators,
             final \in BOOLEAN, filter \in Filters, format \in LogFormats :
             FilterLogWithFormat(entries, terminator, final, filter, format)

SpecFilter == InitFilter /\ [][NextFilter]_vars

\* ------------------------------- a chunk's extraction, worker by worker
\* lib.rs 182-186 and 494-548: extract_logging runs the closure of flat_map
\* on the loaded sources with par_iter, one worker per source and the
\* workers' turns of `for result in results` in any interleaving; collect
\* gathers what they yield in the order of the sources; then for_each
\* inserts one StatementsInFile after the other.

MaxWorkers == 2

ParNames == { <<"m", ".", "r", "s">>, <<"m", ".", "c", "c">> }
ParItems ==
    { << Other >>,
      << Lit(<<"{","}">>) >>,
      << Lit(<<"a","{","}">>), Arg(<<"i">>), Lit(<<"{","}","1">>), Arg(<<"j">>) >>,
      << Lit(<<"{","}","{","1","}">>), Lit(<<"{","}","{","1","}">>), Lit(<<"{","}","{","1","}">>) >> }

\* The sources of a chunk: the w-th has the file id w - 1
ParSources(n) ==
    { [w \in 1..n |-> [from_string(pick[w][1], pick[w][2]) EXCEPT !.info.id = w - 1]] :
        pick \in [1..n -> ParNames \X ParItems] }

\* The map before the chunk: empty, or with what an earlier scan found in
\* the file of id 0
ParBefore ==
    { EmptyMap,
      MapInsert(EmptyMap, 0,
                Unwrap(ExtractFile(from_string(<<"m", ".", "r", "s">>, << Lit(<<"a">>) >>)).sif)) }

\* What the closure yields once its loop is over (lib.rs 536-546)
FinishFile(code_source, st) ==
    IF st.matched = <<>> THEN [panic |-> FALSE, sif |-> None]
    ELSE IF ~RegexSetNew(st.patterns).ok THEN [panic |-> TRUE, sif |-> None]
    ELSE [panic |-> FALSE,
          sif |-> Some([path           |-> st.matched[1].source_path,
                        id             |-> code_source.info.id,
                        log_statements |-> st.matched,
                        matcher        |-> RegexSetNew(st.patterns).patterns])]

\* extract_logging(&sources, tracker) is called on the loaded sources
StartChunk(sources, before) ==
    /\ pcall = None
    /\ pcall' = Some([phase   |-> "extract",
                      before  |-> before,
                      sources |-> sources,
                      pos     |-> [w \in 1..Len(sources) |-> 0],
                      st      |-> [w \in 1..Len(sources) |-> [matched |-> <<>>, patterns |-> <<>>]],
                      out     |-> [w \in 1..Len(sources) |-> None],
                      sifs    |-> <<>>,
                      fws     |-> before])
    /\ UNCHANGED <<roots, fs, edits, ret, panicked, code, built, vcall, lcall, fcall>>

Extracting == ~panicked /\ IsSome(pcall) /\ Unwrap(pcall).phase = "extract"

\* One turn of worker w's `for result in results`
WorkerStep(w) ==
    /\ Extracting
    /\ w \in 1..Len(Unwrap(pcall).sources)
    /\ Unwrap(pcall).pos[w] < Len(Unwrap(pcall).sources[w].results)
    /\ pcall' = Some([Unwrap(pcall) EXCEPT
                        !.pos[w] = @ + 1,
                        !.st[w] = BuilderStep(@, Unwrap(pcall).sources[w],
                                              Unwrap(pcall).sources[w].results[Unwrap(pcall).pos[w] + 1])])
    /\ UNCHANGED <<roots, fs, edits, ret, panicked, code, built, vcall, lcall, fcall>>

\* Worker w leaves its closure
WorkerFinish(w) ==
    /\ Extracting
    /\ w \in 1..Len(Unwrap(pcall).sources)
    /\ Unwrap(pcall).pos[w] = Len(Unwrap(pcall).sources[w].results)
    /\ Unwrap(pcall).out[w] = None
    /\ pcall' = Some([Unwrap(pcall) EXCEPT
                        !.out[w] = Some(FinishFile(Unwrap(pcall).sources[w], Unwrap(pcall).st[w]))])
    /\ UNCHANGED <<roots, fs, edits, ret, panicked, code, built, vcall, lcall, fcall>>

\* A variant that does not wait for all the workers
AllFinished_Some(p) == p.sources = <<>> \/ \E w \in 1..Len(p.sources) : IsSome(p.out[w])

\* Every worker has left its closure
AllFinished(p) == \A w \in 1..Len(p.sources) : IsSome(p.out[w])

\* What the workers have yielded, in the order of the sources
RECURSIVE Gathered(_)
Gathered(out) ==
    IF out = <<>> THEN <<>>
    ELSE (IF IsSome(Head(out)) THEN Unwrap(Head(out)).sif ELSE <<>>) \o Gathered(Tail(out))

\* collect(): the call returns, or the panic of a worker is passed on
Collect ==
    /\ Extracting
    /\ AllFinished(Unwrap(pcall))
    /\ panicked' = \E w \in 1..Len(Unwrap(pcall).sources) :
                      IsSome(Unwrap(pcall).out[w]) /\ Unwrap(Unwrap(pcall).out[w]).panic
    /\ pcall' = Some([Unwrap(pcall) EXCEPT !.phase = "insert",
                                           !.sifs = Gathered(Unwrap(pcall).out)])
    /\ UNCHANGED <<roots, fs, edits, ret, code, built, vcall, lcall, fcall>>

\* One turn of `.into_iter().for_each(|sif| ..insert(sif.id, sif))`
InsertNext ==
    /\ ~panicked
    /\ IsSome(pcall) /\ Unwrap(pcall).phase = "insert"
    /\ Unwrap(pcall).sifs # <<>>
    /\ pcall' = Some([Unwrap(pcall) EXCEPT
                        !.fws = MapInsert(@, Head(Unwrap(pcall).sifs).id, Head(Unwrap(pcall).sifs)),
                        !.sifs = Tail(@)])
    /\ UNCHANGED <<roots, fs, edits, ret, panicked, code, built, vcall, lcall, fcall>>

InitParallel ==
    /\ roots = EmptyMap
    /\ fs = [f \in FilePaths |-> None]
    /\ edits = 0
    /\ ret = NoCall
    /\ panicked = FALSE
    /\ code = None
    /\ built = None
    /\ vcall = None
    /\ lcall = None
    /\ fcall = None
    /\ pcall = None

NextParallel ==
    \/ /\ pcall = None
       /\ \E n \in 0..MaxWorkers : \E sources \in ParSources(n), before \in ParBefore :
             StartChunk(sources, before)
    \/ \E w \in 1..MaxWorkers : WorkerStep(w)
    \/ \E w \in 1..MaxWorkers : WorkerFinish(w)
    \/ Collect
    \/ InsertNext

SpecParallel == InitParallel /\ [][NextParallel]_vars

\* ------------------------------------------------------------------ claims

\* C1: add_root(B) with B below a registered root A fails with PathExists
\* and installs nothing.  The code returns Ok(()) on that branch.
C1_RootContainment ==
    (/\ ret.op = "add_root"
     /\ \E A \in DOMAIN roots : A # ret.arg /\ StartsWith(ret.arg, A))
    => (ret.val = "PathExists" /\ ret.arg \notin DOMAIN roots)

\* C2: the registered roots are pairwise non-nested: no registered root is a
\* prefix of another.  Registering a child before its parent breaks it.
C2_RootsNonNested ==
    \A p \in DOMAIN roots, q \in DOMAIN roots : p # q => ~StartsWith(q, p)

\* The files of the registered roots in which src_ref is the lowest-index
\* source reference whose pattern matches body
FilesSelecting(src_ref, body) ==
    { stmts \in UNION { Values(roots[path].files_with_statements) : path \in DOMAIN roots } :
        \E k \in 1..Len(stmts.log_statements) :
            /\ stmts.log_statements[k] = src_ref
            /\ IsMatch(src_ref.pattern, body)
            /\ \A j \in 1..(k - 1) : ~IsMatch(stmts.log_statements[j].pattern, body) }

\* The files of the registered roots with several patterns matching body
FilesMatchingTwice(body) ==
    { stmts \in UNION { Values(roots[path].files_with_statements) : path \in DOMAIN roots } :
        Cardinality({ k \in 1..Len(stmts.log_statements) :
                        IsMatch(stmts.log_statements[k].pattern, body) }) >= 2 }

NoFileHint(log_ref) ==
    ~IsSome(log_ref.details) \/ ~IsSome(Unwrap(log_ref.details).file)

\* C3: for a log line without a file hint, a returned mapping carries a source
\* reference of some StatementsInFile of a registered root, whose pattern
\* matches the body and which is the lowest-index matching pattern of that file.
C3_UnhintedMatch ==
    (/\ ret.op = "match_log_statement"
     /\ NoFileHint(ret.arg)
     /\ IsSome(ret.val))
    => /\ IsSome(Unwrap(ret.val).src_ref)
       /\ FilesSelecting(Unwrap(Unwrap(ret.val).src_ref), LogRefBody(ret.arg)) # {}

\* C3's case: details present without a file, a body that several patterns of
\* the selected file match, and a mapping returned
C3_Witness ==
    /\ ret.op = "match_log_statement"
    /\ IsSome(ret.arg.details)
    /\ NoFileHint(ret.arg)
    /\ IsSome(Unwrap(ret.arg.details).body)
    /\ IsSome(ret.val)
    /\ FilesSelecting(Unwrap(Unwrap(ret.val).src_ref), LogRefBody(ret.arg))
         \cap FilesMatchingTwice(LogRefBody(ret.arg)) # {}

\* C4: for a log line with a file hint and a body, a returned mapping carries
\* the lowest-index matching source reference of a file whose path contains
\* the hint; a file whose path does not contain the hint is never selected.
C4_HintedMatch ==
    (/\ ret.op = "match_log_statement"
     /\ HasHints(ret.arg)
     /\ IsSome(ret.val))
    => /\ IsSome(Unwrap(ret.val).src_ref)
       /\ \E stmts \in FilesSelecting(Unwrap(Unwrap(ret.val).src_ref),
                                      Unwrap(Unwrap(ret.arg.details).body)) :
              Contains(stmts.path, Unwrap(Unwrap(ret.arg.details).file))

\* C4's case: a mapping returned for a hinted line while a file whose path
\* does not contain the hint also has a pattern matching the body
C4_Witness ==
    /\ ret.op = "match_log_statement"
    /\ HasHints(ret.arg)
    /\ IsSome(ret.val)
    /\ \E path \in DOMAIN roots :
         \E stmts \in Values(roots[path].files_with_statements) :
            /\ ~Contains(stmts.path, Unwrap(Unwrap(ret.arg.details).file))
            /\ IsSome(FirstMatch(stmts.matcher, Unwrap(Unwrap(ret.arg.details).body)))

\* A file of a registered root that is eligible for the log line and has a
\* pattern matching its body
SomeEligibleFileMatches(log_ref) ==
    \E path \in DOMAIN roots :
      \E stmts \in Values(roots[path].files_with_statements) :
        /\ HasHints(log_ref) => Contains(stmts.path, Unwrap(Unwrap(log_ref.details).file))
        /\ \E k \in 1..Len(stmts.log_statements) :
              IsMatch(stmts.log_statements[k].pattern, ProbeBody(log_ref))

\* C5: match_log_statement returns absent if no root yields a match, and a
\* mapping with its source reference whenever an eligible file of a registered
\* root has a pattern matching the body; a mapping without source reference
\* has no variables.  The call panics instead when the selected reference has
\* a Placeholder beyond its vars (C24).
C5_MatchResult ==
    ret.op = "match_log_statement"
    => /\ ~SomeEligibleFileMatches(ret.arg) => (~panicked /\ ~IsSome(ret.val))
       /\ SomeEligibleFileMatches(ret.arg) =>
             (~panicked /\ IsSome(ret.val) /\ IsSome(Unwrap(ret.val).src_ref))
       /\ (IsSome(ret.val) /\ ~IsSome(Unwrap(ret.val).src_ref)) =>
             Unwrap(ret.val).variables = <<>>

\* The StatementsInFile extraction makes of the file of a NewFile event, as
\* an Option, with the filesystem as it is
SifOfEvent(event) == ExtractFile(CodeSourceNew(event, Unwrap(fs[event.path]))).sif

\* C9: after extract_log_statements returns, for every NewFile event of a
\* root's scan whose file has a call site the root's map holds the resulting
\* StatementsInFile under the event's id, and for every DeletedFile event the
\* id has no entry.  The removals of a chunk are applied before its insertions,
\* so a DeletedFile that follows a NewFile of its id leaves the entry (C25).
C9_EventsConsumed ==
    (ret.op = "extract_log_statements" /\ ~panicked)
    => \A path \in DOMAIN ret.arg :
         LET events == ret.arg[path].tree.pending
             fws == roots[path].files_with_statements
         IN  \A i \in 1..Len(events) :
               IF events[i].kind = "NewFile"
               THEN IsSome(SifOfEvent(events[i])) =>
                       /\ events[i].id \in DOMAIN fws
                       /\ fws[events[i].id] = Unwrap(SifOfEvent(events[i]))
               ELSE events[i].id \notin DOMAIN fws

\* C10: after a NewFile event for an id that already has an entry, the entry
\* reflects only the newly loaded content; if that has no call sites the id
\* has no entry any more.  The code inserts nothing for such a file and
\* leaves the old entry in the map.
C10_RebuiltOnAdd ==
    (ret.op = "extract_log_statements" /\ ~panicked)
    => \A path \in DOMAIN ret.arg :
         LET events == ret.arg[path].tree.pending
             before == ret.arg[path].files_with_statements
             fws == roots[path].files_with_statements
         IN  \A i \in 1..Len(events) :
               (events[i].kind = "NewFile" /\ events[i].id \in DOMAIN before)
               => IF IsSome(SifOfEvent(events[i]))
                  THEN /\ events[i].id \in DOMAIN fws
                       /\ fws[events[i].id] = Unwrap(SifOfEvent(events[i]))
                  ELSE events[i].id \notin DOMAIN fws

\* extract_variables has been called: its source reference, log line, result
Called == IsSome(vcall) /\ IsSome(Unwrap(vcall).log_ref)
CallRef == Unwrap(vcall).src_ref
CallLog == Unwrap(Unwrap(vcall).log_ref)
CallOut == Unwrap(vcall).out
\* The groups the pattern captures on the log line's body
CallCaps == MatchFrom(CallRef.pattern, LogRefBody(CallLog))

\* The expression the claim gives the descriptor at position i (0-based)
ClaimedExpr(src_ref, i) ==
    LET d == src_ref.args[i + 1]
    IN  CASE d.t = "Named" -> d.name
          [] d.t = "Positional" ->
                IF d.pos + 1 \in 1..Len(src_ref.vars) THEN src_ref.vars[d.pos + 1] ELSE Unknown
          [] d.t = "Placeholder" -> src_ref.vars[i + 1]

\* C6: when the pattern matches the body, extract_variables pairs the i-th
\* captured group with the i-th descriptor: the value is the captured text,
\* unchanged, and the expression is the name of a Named descriptor, the
\* pos-th entry of vars (or <unknown> when out of range) of a Positional
\* one, the i-th entry of vars of a Placeholder.  With a Placeholder whose
\* position has no entry in vars the call panics and pairs nothing (C24).
C6_PairsNamed ==
    (Called /\ CallCaps.ok)
    => /\ ~CallOut.panic
       /\ Len(CallOut.variables) = Len(CallRef.args)
       /\ \A i \in 1..Len(CallRef.args) :
             /\ CallOut.variables[i].value = CallCaps.caps[i]
             /\ CallOut.variables[i].expr = ClaimedExpr(CallRef, i - 1)

\* C7: extract_variables applies the pattern to details.body when it is
\* present and to the raw line otherwise: it returns the empty list when the
\* pattern does not match that text, and the values it returns are the groups
\* captured on that text.
C7_BodyPreferred ==
    Called
    => /\ ~CallCaps.ok => (~CallOut.panic /\ CallOut.variables = <<>>)
       /\ (CallCaps.ok /\ ~CallOut.panic) =>
             /\ Len(CallOut.variables) = Len(CallCaps.caps)
             /\ \A i \in 1..Len(CallOut.variables) :
                   CallOut.variables[i].value = CallCaps.caps[i]

\* C7's case: details.body is present and differs from the line, the pattern
\* matches the body and not the line, and variables are returned
C7_Witness ==
    /\ Called
    /\ IsSome(CallLog.details)
    /\ IsSome(Unwrap(CallLog.details).body)
    /\ Unwrap(Unwrap(CallLog.details).body) # CallLog.line
    /\ CallCaps.ok
    /\ ~IsMatch(CallRef.pattern, CallLog.line)
    /\ CallOut.variables # <<>>

\* C8: for every source reference and every body its pattern matches,
\* extract_variables returns args.len() pairs, in placeholder order.  With a
\* Placeholder beyond vars the call panics and returns none (C24).
C8_CountInvariant ==
    (Called /\ CallCaps.ok)
    => /\ ~CallOut.panic
       /\ Len(CallOut.variables) = Len(CallRef.args)

\* The number of log statements the matcher recognises is zero
NoStatementsRecognised ==
    \A path \in DOMAIN roots :
      \A id \in DOMAIN roots[path].files_with_statements :
         roots[path].files_with_statements[id].log_statements = <<>>

\* C11: every entry of every root's files_with_statements has a non-empty
\* list of source references, and is_empty() returns true exactly when the
\* matcher recognises no log statement.
C11_EntriesNonEmpty ==
    /\ \A path \in DOMAIN roots :
         \A id \in DOMAIN roots[path].files_with_statements :
            roots[path].files_with_statements[id].log_statements # <<>>
    /\ ret.op = "is_empty" => (ret.val <=> NoStatementsRecognised)

\* C11's case: is_empty() returns false while a file without call sites has
\* been extracted by a root and has no entry there
C11_Witness ==
    /\ ret.op = "is_empty"
    /\ ret.val = FALSE
    /\ \E path \in DOMAIN roots : \E f \in DOMAIN roots[path].tree.nodes :
          /\ roots[path].tree.pending = <<>>
          /\ fs[f] = Some(NoCallSites)
          /\ roots[path].tree.nodes[f].stamp = fs[f]
          /\ roots[path].tree.nodes[f].id \notin DOMAIN roots[path].files_with_statements

\* discover_sources followed by extract_log_statements: [panic, roots]
SyncAndExtract(rs, disk) == extract_log_statements(discover_sources(rs, disk), disk)

\* The map files_with_statements of every root
StatementsOf(rs) == [path \in DOMAIN rs |-> rs[path].files_with_statements]

\* C12: from every state in which the matcher can be called, running
\* discover_sources and extract_log_statements a second time, the filesystem
\* unchanged, leaves every root's files_with_statements as the first run
\* left it.
C12_IdempotentSync ==
    Idle =>
      \A first \in {SyncAndExtract(roots, fs)} :
         ~first.panic =>
            \A second \in {SyncAndExtract(first.roots, fs)} :
               /\ ~second.panic
               /\ StatementsOf(second.roots) = StatementsOf(first.roots)

\* C12's case: extract_log_statements has returned from a second run: the
\* roots it started from had no event left and were in sync with the
\* filesystem, as they are now, and hold source references
C12_Witness ==
    /\ ret.op = "extract_log_statements"
    /\ ~panicked
    /\ discover_sources(ret.arg, fs) = ret.arg
    /\ discover_sources(roots, fs) = roots
    /\ \E path \in DOMAIN roots :
          /\ ret.arg[path].tree.pending = <<>>
          /\ roots[path].files_with_statements # EmptyMap
          /\ roots[path].files_with_statements = ret.arg[path].files_with_statements

\* A NewFile event of the scan extract_log_statements was called on names a
\* file that cannot be opened
UnreadableEvent ==
    \E path \in DOMAIN ret.arg :
       \E i \in 1..Len(ret.arg[path].tree.pending) :
          /\ ret.arg[path].tree.pending[i].kind = "NewFile"
          /\ ~IsSome(fs[ret.arg[path].tree.pending[i].path])

\* C13: a source file that cannot be opened during extract_log_statements
\* does not abort the run: the call returns, the file has no entry and the
\* events of every root have been consumed.  The code panics at todo!().
C13_UnreadableSkipped ==
    (ret.op = "extract_log_statements" /\ UnreadableEvent)
    => /\ ~panicked
       /\ \A path \in DOMAIN roots : roots[path].tree.pending = <<>>

\* extract_logging has run on the code source held in code
Extracted == IsSome(code) /\ (IsSome(built) \/ panicked)

\* The source references the builder matched in the code source held in code
MatchedIn(c) == BuilderLoop([matched |-> <<>>, patterns |-> <<>>], c, c.results).matched

\* C14: a file with matched literals always gets its StatementsInFile, with
\* all its source references and a matcher that tries their patterns in
\* order, also when the pattern set is too large to compile into one
\* matcher.  The code panics at RegexSet::new(patterns).expect(..) instead.
C14_MatcherFallback ==
    (Extracted /\ MatchedIn(Unwrap(code)) # <<>>)
    => /\ ~panicked
       /\ IsSome(built)
       /\ Unwrap(built).log_statements = MatchedIn(Unwrap(code))
       /\ Unwrap(built).matcher =
             [i \in 1..Len(Unwrap(built).log_statements) |->
                 Unwrap(built).log_statements[i].pattern]

\* C15: denylist soundness: no entry of the vars of a source reference
\* extract_logging produced, lower-cased, is an identifier of the denylist
\* of the file's language.  The code compares the untrimmed text with the
\* denylist and stores the trimmed one.
C15_DenylistSound ==
    (IsSome(code) /\ IsSome(built))
    => \A i \in 1..Len(Unwrap(built).log_statements) :
          \A j \in 1..Len(Unwrap(built).log_statements[i].vars) :
             ToLower(Unwrap(built).log_statements[i].vars[j])
                \notin get_identifiers(Unwrap(code).info.language)

\* link_to_source has been called: its list, its log line, its result
Linked == IsSome(lcall)
LinkRefs == Unwrap(lcall).src_refs
LinkLog == Unwrap(lcall).log_ref
LinkOut == Unwrap(lcall).out
\* The body of the linked log line: details.body if present, else the line
LinkBody ==
    IF IsSome(LinkLog.details) /\ IsSome(Unwrap(LinkLog.details).body)
    THEN Unwrap(Unwrap(LinkLog.details).body)
    ELSE LinkLog.line
\* The positions of the list whose pattern matches the body
LinkMatching == { i \in 1..Len(LinkRefs) : IsMatch(LinkRefs[i].pattern, LinkBody) }

\* C18: link_to_source returns the first source reference, in list order,
\* whose pattern matches the log line's body (details.body if present, else
\* the raw line), and none when no source reference of the list matches.
C18_FirstInOrder ==
    Linked
    => IF LinkMatching = {} THEN LinkOut = None
       ELSE \E i \in LinkMatching :
               /\ \A j \in LinkMatching : i <= j
               /\ LinkOut = Some(LinkRefs[i])

\* C18's case: the line has a body that differs from it, several source
\* references match the body, none matches the line, and one is returned
C18_Witness ==
    /\ Linked
    /\ IsSome(LinkLog.details)
    /\ LinkBody # LinkLog.line
    /\ Cardinality(LinkMatching) >= 2
    /\ \A i \in 1..Len(LinkRefs) : ~IsMatch(LinkRefs[i].pattern, LinkLog.line)
    /\ IsSome(LinkOut)

\* The positions of the list whose synthetic body is the linked line
RoundTripOf ==
    { i \in 1..Len(LinkRefs) :
        /\ HasArgumentNames(LinkRefs[i])
        /\ LinkLog = LogRefNew(SyntheticBody(LinkRefs[i])) }

\* The argument names of a source reference, one per placeholder
ArgumentNames(src_ref) == SubSeq(src_ref.vars, 1, Len(src_ref.args))

\* The texts that occur in body
SubstringsOf(body) ==
    { SubSeq(body, i, j) : i \in 1..(Len(body) + 1), j \in 0..Len(body) }

\* The body splits among the placeholders of the pattern in one way only
UniqueSplit(src_ref, body) ==
    \A subs \in [1..Len(src_ref.args) -> SubstringsOf(body)] :
        Fill(src_ref.pattern, subs) = body => subs = ArgumentNames(src_ref)

\* The variables extract_variables returned for the linked reference
LinkVars == Unwrap(Unwrap(lcall).vars)

Instance(src_ref, body) ==
    \E subs \in [1..Len(src_ref.args) -> SubstringsOf(body)] :
        /\ \A k \in 1..Len(src_ref.args) : \A c \in 1..Len(subs[k]) : subs[k][c] # "\n"
        /\ Fill(src_ref.pattern, subs) = body

\* body is such a text with extra characters before it or after it
ExtendedInstance(src_ref, body) ==
    \E k \in 1..Len(body) :
        \/ Instance(src_ref, SubSeq(body, k + 1, Len(body)))
        \/ Instance(src_ref, SubSeq(body, 1, Len(body) - k))

\* C17 as stated: a body that is the literal of a source reference with its
\* placeholders replaced is linked, and no reference is linked to a body
\* that is such a text with extra characters added before or after.
C17_AnchoringAsStated ==
    Linked
    => /\ (\E i \in 1..Len(LinkRefs) : Instance(LinkRefs[i], LinkBody)) => IsSome(LinkOut)
       /\ IsSome(LinkOut) => ~ExtendedInstance(Unwrap(LinkOut), LinkBody)

\* C17, amended: the pattern of a source reference matches a body exactly
\* when the whole body, from its first to its last character, is the literal
\* with each placeholder replaced by a text without line feed: such a body
\* is linked, the body a reference is linked to is such a text of it, and a
\* body that is such a text of no reference is linked to none.
C17_Anchoring ==
    Linked
    => /\ (\E i \in 1..Len(LinkRefs) : Instance(LinkRefs[i], LinkBody)) => IsSome(LinkOut)
       /\ IsSome(LinkOut) => Instance(Unwrap(LinkOut), LinkBody)

\* C17's case: a body with a line feed that extends a text of the literal of
\* a reference by one character more is linked to none, the list holding a
\* reference with a placeholder
C17_Witness ==
    /\ Linked
    /\ LinkOut = None
    /\ \E k \in 1..Len(LinkBody) : LinkBody[k] = "\n"
    /\ \E i \in 1..Len(LinkRefs) :
          /\ LinkRefs[i].args # <<>>
          /\ ExtendedInstance(LinkRefs[i], LinkBody)

\* filter_log: the call made, its arguments and its result
Filtered == IsSome(fcall)
FilterLines == Unwrap(fcall).lines
FilterRange == Unwrap(fcall).filter
FilterFormat == Unwrap(fcall).log_format
FilterOut == Unwrap(fcall).out

\* The lines, counted from 1, whose 0-based number lies in the range
Selected ==
    { i \in 1..Len(FilterLines) :
        /\ IsSome(FilterRange.start) => Unwrap(FilterRange.start) <= i - 1
        /\ IsSome(FilterRange.end) => i - 1 < Unwrap(FilterRange.end) }

\* The k-th of the selected lines in buffer order
NthSelected(k) == CHOOSE i \in Selected : Cardinality({ j \in Selected : j < i }) = k - 1

\* What a named group of the format took from the i-th line, absent when the
\* format has no group of that name
GroupOf(name, i, value) ==
    IF \E j \in 1..Len(Unwrap(FilterFormat)) :
           Unwrap(FilterFormat)[j].kind = "group" /\ Unwrap(FilterFormat)[j].name = name
    THEN value ELSE None

DetailsOf(i) ==
    LogDetails(GroupOf("file", i, Some(Unwrap(fcall).entries[i].file)),
               GroupOf("line", i, Unwrap(fcall).entries[i].lineno),
               GroupOf("body", i, Some(Unwrap(fcall).entries[i].body)))

StatementsKept ==
    \A path \in DOMAIN roots :
        /\ path \in DOMAIN roots'
        /\ roots'[path].files_with_statements = roots[path].files_with_statements

\* C20: only extract_log_statements changes files_with_statements:
\* match_log_statement, find_source_file_statements, is_empty,
\* discover_sources and add_root of a covered path leave that of every root
\* as it was and add no root, and add_root of a new path leaves that of the
\* roots there were as it was.
C20_OnlyExtractMutates ==
    [][ /\ ret'.op # "extract_log_statements" => StatementsKept
        /\ ret'.op \in {"match_log_statement", "find_source_file_statements",
                        "is_empty", "discover_sources"}
             => DOMAIN roots' = DOMAIN roots
        /\ ret'.op = "add_root" /\ match_path(roots, ret'.arg) # {}
             => DOMAIN roots' = DOMAIN roots ]_vars

\* discover_sources has returned on a root with statements whose file has
\* been removed since they were extracted
C20_Witness ==
    /\ ret.op = "discover_sources"
    /\ \E path \in DOMAIN roots :
         /\ DOMAIN roots[path].files_with_statements # {}
         /\ \A f \in FilePaths : StartsWith(f, path) => fs[f] = None

\* The builder's state after the first k query matches of the code source
BuilderAfter(c, k) ==
    BuilderLoop([matched |-> <<>>, patterns |-> <<>>], c, SubSeq(c.results, 1, k))

\* The test of lib.rs 518-523 fails on the text: it is, lower-cased and as
\* it stands in the buffer, an identifier of the language's denylist
Denylisted(c, text) == ToLower(text) \in get_identifiers(c.info.language)

\* The source references but the last
AllButLast(matched) == SubSeq(matched, 1, Len(matched) - 1)

\* What the k-th query match does to the builder's state
AttributedStep(c, before, after, result) ==
    IF result.kind = "string_literal" THEN
        /\ Len(after.matched) = Len(before.matched) + 1
        /\ AllButLast(after.matched) = before.matched
        /\ after.matched[Len(after.matched)].text = result.text
        /\ after.matched[Len(after.matched)].line_no = result.row + 1
        /\ after.matched[Len(after.matched)].vars = <<>>
    ELSE IF result.kind \in {"args", "this"} /\ before.matched = <<>> THEN
        after = before
    ELSE IF result.kind \in {"args", "this"} /\ ~Denylisted(c, result.text) THEN
        /\ Len(after.matched) = Len(before.matched)
        /\ AllButLast(after.matched) = AllButLast(before.matched)
        /\ after.matched[Len(after.matched)] =
              [before.matched[Len(before.matched)] EXCEPT
                  !.vars = Append(@, Trim(result.text)),
                  !.end_line_no = result.row + 1]
        /\ after.patterns = before.patterns
    ELSE after = before

\* The texts of the literals among the query matches, in their order
LiteralTexts(results) ==
    LET Text(i) == results[i].text
    IN  [n \in 1..Cardinality({ i \in 1..Len(results) : results[i].kind = "string_literal" }) |->
            Text(CHOOSE i \in 1..Len(results) :
                    /\ results[i].kind = "string_literal"
                    /\ Cardinality({ j \in 1..i : results[j].kind = "string_literal" }) = n)]

\* C21: builder attribution: an args or this match that is not denylisted
\* is appended to the vars of the most recently pushed source reference and
\* sets its end_line_no to the match's end row + 1; one seen before any
\* literal is ignored; a match of another kind (and a denylisted one)
\* changes nothing; the source references come in the order of their
\* literals.
C21_BuilderAttribution ==
    Extracted =>
      /\ \A k \in 1..Len(Unwrap(code).results) :
            AttributedStep(Unwrap(code), BuilderAfter(Unwrap(code), k - 1),
                           BuilderAfter(Unwrap(code), k), Unwrap(code).results[k])
      /\ IsSome(built) =>
            [i \in 1..Len(Unwrap(built).log_statements) |->
                Unwrap(built).log_statements[i].text] = LiteralTexts(Unwrap(code).results)

\* Two literals and then an argument: the second source reference has it
C21_Witness ==
    /\ IsSome(code) /\ IsSome(built)
    /\ Len(Unwrap(code).results) = 3
    /\ Unwrap(code).results[1].kind = "string_literal"
    /\ Unwrap(code).results[2].kind = "string_literal"
    /\ Unwrap(code).results[3] = QueryResult("args", <<" ", "j">>, 2)
    /\ Unwrap(built).log_statements[1].vars = <<>>
    /\ Unwrap(built).log_statements[1].end_line_no = 1
    /\ Unwrap(built).log_statements[2].vars = << <<"j">> >>
    /\ Unwrap(built).log_statements[2].end_line_no = 3

\* C22: in every StatementsInFile produced, the matcher's alternatives are
\* the pattern fields of log_statements, in the same order and as many, so
\* the index the matcher reports for a body is that of a source reference
\* whose pattern matches the body; also when args or this matches have
\* changed vars and end_line_no of a pushed reference.
C22_MatcherAligned ==
    (IsSome(code) /\ IsSome(built)) =>
      /\ Len(Unwrap(built).matcher) = Len(Unwrap(built).log_statements)
      /\ \A i \in 1..Len(Unwrap(built).log_statements) :
            Unwrap(built).matcher[i] = Unwrap(built).log_statements[i].pattern
      /\ \A body \in Bodies :
            IsSome(FirstMatch(Unwrap(built).matcher, body)) =>
               /\ IsSome(FileMatch(Unwrap(built), body))
               /\ IsMatch(Unwrap(FileMatch(Unwrap(built), body)).pattern, body)
               /\ Unwrap(FileMatch(Unwrap(built), body)) =
                     Unwrap(built).log_statements[Unwrap(FirstMatch(Unwrap(built).matcher, body)) + 1]

\* Two source references with different patterns, the first changed by an
\* argument before the second was pushed, and a body the second matches
C22_Witness ==
    /\ IsSome(code) /\ IsSome(built)
    /\ Len(Unwrap(built).log_statements) = 2
    /\ Unwrap(code).results[2].kind = "args"
    /\ Unwrap(built).log_statements[1].vars # <<>>
    /\ Unwrap(built).log_statements[1].end_line_no = 2
    /\ Unwrap(built).log_statements[1].pattern # Unwrap(built).log_statements[2].pattern
    /\ \E body \in Bodies : FirstMatch(Unwrap(built).matcher, body) = Some(1)

\* C23: the workers of a chunk do not race on the map.  While they run the
\* map is as it was before the chunk; a worker yields nothing or one
\* StatementsInFile with the file id of its source, the same whatever the
\* other workers did meanwhile; the insertions come after all of them, one
\* by one, and lead in every interleaving to the map (or the abort) of
\* extracting the sources one after the other.
C23_NoRaceOnIndex ==
    IsSome(pcall) =>
      /\ Unwrap(pcall).phase = "extract" => Unwrap(pcall).fws = Unwrap(pcall).before
      /\ \A w \in 1..Len(Unwrap(pcall).sources) :
            IsSome(Unwrap(pcall).out[w]) =>
               /\ Unwrap(Unwrap(pcall).out[w]) = ExtractFile(Unwrap(pcall).sources[w])
               /\ Len(Unwrap(Unwrap(pcall).out[w]).sif) <= 1
               /\ IsSome(Unwrap(Unwrap(pcall).out[w]).sif) =>
                     Unwrap(Unwrap(Unwrap(pcall).out[w]).sif).id = Unwrap(pcall).sources[w].info.id
      /\ Unwrap(pcall).phase = "insert" =>
            /\ panicked = extract_logging(Unwrap(pcall).sources).panic
            /\ ~panicked =>
                  InsertAll(Unwrap(pcall).fws, Unwrap(pcall).sifs) =
                     InsertAll(Unwrap(pcall).before, extract_logging(Unwrap(pcall).sources).sifs)

\* Two workers with several query matches each have both yielded a
\* StatementsInFile, and both are in the map, one in the place of what an
\* earlier scan had found
C23_Witness ==
    /\ IsSome(pcall) /\ ~panicked
    /\ Unwrap(pcall).phase = "insert" /\ Unwrap(pcall).sifs = <<>>
    /\ Len(Unwrap(pcall).sources) = 2
    /\ \A w \in 1..2 : Len(Unwrap(pcall).sources[w].results) > 1
    /\ DOMAIN Unwrap(pcall).before = {0}
    /\ DOMAIN Unwrap(pcall).fws = {0, 1}
    /\ Unwrap(pcall).fws[0] # Unwrap(pcall).before[0]

\* C24: extract_variables does not abort on a source reference the builder
\* produced: on a body that fits the pattern it returns the variable list,
\* also when vars is shorter than the number of placeholders or a
\* Placeholder follows a Named descriptor.  The code indexes
\* src_ref.vars[index] (lib.rs 459) and panics when vars has no such entry.
C24_NeverAborts ==
    (Called /\ captures(CallRef, ExtractLine(CallLog)).ok) => ~CallOut.panic

\* The events applied to the map one at a time, in the order of the stream
RECURSIVE AppliedInOrder(_, _)
AppliedInOrder(fws, events) ==
    IF events = <<>> THEN fws
    ELSE IF Head(events).kind = "DeletedFile"
    THEN AppliedInOrder(MapRemove(fws, Head(events).id), Tail(events))
    ELSE IF IsSome(SifOfEvent(Head(events)))
    THEN AppliedInOrder(MapInsert(fws, Head(events).id, Unwrap(SifOfEvent(Head(events)))),
                        Tail(events))
    ELSE AppliedInOrder(fws, Tail(events))

\* C25: extract_log_statements applies the events of a scan in stream order
\* whatever the chunks are: the map of every root after the call is the map
\* before it with the events applied one at a time; a NewFile followed by a
\* DeletedFile of the same id leaves no entry for the id.  The code applies
\* a chunk's removals while it loads the chunk and its insertions after.
C25_StreamOrder ==
    (ret.op = "extract_log_statements" /\ ~panicked)
    => \A path \in DOMAIN ret.arg :
          roots[path].files_with_statements =
             AppliedInOrder(ret.arg[path].files_with_statements, ret.arg[path].tree.pending)

====
